---- MODULE Spec2Model ----
(***************************************************************************)
(* A model of the insurance-intake backend: the chat service               *)
(* (backend/services/chat_service.py), the PDF ingestion service           *)
(* (backend/services/pdf_ingestion_service.py) and the event-log endpoints *)
(* (backend/main.py).                                                      *)
(*                                                                         *)
(* Conventions.  A Python str is a sequence of tokens (one-character       *)
(* strings where the code looks at characters).  A multi-line text is a    *)
(* sequence of lines, a line a sequence of tokens; "\n".join(parts) is the *)
(* concatenation of the parts' lines.  A Python value of unknown type is a *)
(* record tagged by ty.  A call that may raise returns a record            *)
(* [raised, exc, value].                                                   *)
(***************************************************************************)
EXTENDS Integers, Sequences, FiniteSets, TLC

VARIABLES
    env,        \* process environment read by the services' constructors
    pc,         \* "idle", or the handler that has just run
    request,    \* the inputs of the request being served
    posts,      \* outbound HTTP POSTs issued while serving the request
    messages,   \* the message list built for the model API
    result,     \* what the handler returned or raised
    files,      \* data/event_logs: file name -> contents
    saved,      \* history: claim number -> the data of its most recent save
    clock       \* datetime.now(), in seconds

vars == <<env, pc, request, posts, messages, result, files, saved, clock>>

----------------------------------------------------------------------------
(* Bounds of the model *)

MaxHist == 22

MaxCities == 11

MaxRecent == 6

MaxLog == 3

MaxPdfPages == 2

MaxChars == 3

MaxRenderPages == 2

MaxClock == 1

\* the longest response text of which every spelling is tried
MaxJson == 3

----------------------------------------------------------------------------
(* Sequences and Python str helpers *)

Min(a, b) == IF a < b THEN a ELSE b

Max(a, b) == IF a > b THEN a ELSE b

\* s[:n]
Take(s, n) == SubSeq(s, 1, Min(n, Len(s)))

\* s[n:]
Drop(s, n) == SubSeq(s, Min(n, Len(s)) + 1, Len(s))

\* s[-n:] for n > 0
PyLast(s, n) == SubSeq(s, Max(1, Len(s) - n + 1), Len(s))

StartsWith(s, p) == Len(s) >= Len(p) /\ SubSeq(s, 1, Len(p)) = p

\* sub in s
Contains(s, sub) ==
    \E i \in 0..(Len(s) - Len(sub)) : SubSeq(s, i + 1, i + Len(sub)) = sub

RECURSIVE Flatten(_)
Flatten(ss) == IF ss = <<>> THEN <<>> ELSE Head(ss) \o Flatten(Tail(ss))

\* "\n".join(parts): every part is a text; "" is the text of one empty line
JoinLines(parts) == IF parts = <<>> THEN << <<>> >> ELSE Flatten(parts)

\* a call's outcome
Returned(v) == [raised |-> FALSE, exc |-> <<>>, value |-> v]

Raised(e) == [raised |-> TRUE, exc |-> e, value |-> <<>>]

----------------------------------------------------------------------------
(* Python values *)

PyNone == [ty |-> "none"]

PyStr(s) == [ty |-> "str", s |-> s]

PyInt(n) == [ty |-> "int", n |-> n]

PyList(items) == [ty |-> "list", items |-> items]

\* an insertion-ordered dict: a sequence of <<key, value>> pairs, keys distinct
PyDict(pairs) == [ty |-> "dict", pairs |-> pairs]

\* a value json cannot serialise (a set, an object); repr is its str()
PyObject(repr) == [ty |-> "object", repr |-> repr]

IsDict(v) == v.ty = "dict"

IsList(v) == v.ty = "list"

\* bool(v)
Truthy(v) ==
    CASE v.ty = "none" -> FALSE
      [] v.ty = "str" -> v.s # ""
      [] v.ty = "int" -> v.n # 0
      [] v.ty = "list" -> Len(v.items) > 0
      [] v.ty = "dict" -> Len(v.pairs) > 0
      [] OTHER -> TRUE

\* key in d
DictHas(d, k) == \E i \in 1..Len(d.pairs) : d.pairs[i][1] = k

\* d.get(k, default)
DictGet(d, k, default) ==
    IF DictHas(d, k)
    THEN d.pairs[CHOOSE i \in 1..Len(d.pairs) : d.pairs[i][1] = k][2]
    ELSE default

\* f"{v}" for the values the prompts interpolate
Render(v) ==
    CASE v.ty = "none" -> "None"
      [] v.ty = "str" -> v.s
      [] v.ty = "int" -> ToString(v.n)
      [] v.ty = "object" -> v.repr
      [] v.ty = "list" -> "[...]"
      [] v.ty = "dict" -> "{...}"

----------------------------------------------------------------------------
(* ChatService: prompt builder (chat_service.py) *)

\* the fixed instruction texts, each stood for by its first line
DashboardBasePrompt ==
    << <<"You are an intelligent assistant for SunLife Insurance Claims Processing Dashboard. ">> >>

DocumentPrompt ==
    << <<"You are an intelligent document assistant for SunLife Insurance. ">> >>

GeneralPrompt ==
    << <<"You are an intelligent assistant for SunLife Insurance Claims Processing Portal. ">> >>

ClaimsHeader == <<"Current Claims Data Summary:">>

ActivityHeader == <<"Claims Process Agent Activity Log:">>

\* variant: one city more is shown
CityLimitWider == 10 + 1

CityLimit == 10

RecentLimit == 5

\* AttributeError of x.get on a value that is no dict
NoGetError(v) == <<"'", v.ty, "' object has no attribute 'get'">>

StatLine(stats, label, key) ==
    <<"  - ", label, ": ", Render(DictGet(stats, key, PyInt(0)))>>

StatisticsParts(claims_data) ==
    IF DictHas(claims_data, "statistics")
       /\ IsDict(DictGet(claims_data, "statistics", PyNone))
    THEN LET stats == DictGet(claims_data, "statistics", PyNone)
         IN  << << <<"Statistics:">> >>,
                << StatLine(stats, "Processed Today", "processedToday") >>,
                << StatLine(stats, "Processed This Week", "processedWeek") >>,
                << StatLine(stats, "Processed This Month", "processedMonth") >>,
                << StatLine(stats, "Accepted Claims", "accepted") >>,
                << StatLine(stats, "Pending Claims", "pending") >>,
                << StatLine(stats, "Denied Claims", "denied") >>,
                << StatLine(stats, "Total Claims", "total") >> >>
    ELSE <<>>

CityLine(city) ==
    <<"  - ", Render(DictGet(city, "city", PyStr("Unknown"))),
      ": Total=", Render(DictGet(city, "total", PyInt(0))),
      ", Accepted=", Render(DictGet(city, "accepted", PyInt(0))),
      ", Pending=", Render(DictGet(city, "pending", PyInt(0))),
      ", Denied=", Render(DictGet(city, "denied", PyInt(0)))>>

\* the loop over city_data[:10]; the first entry that is no dict raises
CityParts(claims_data) ==
    IF DictHas(claims_data, "cityData")
       /\ IsList(DictGet(claims_data, "cityData", PyNone))
       /\ Truthy(DictGet(claims_data, "cityData", PyNone))
    THEN LET shown == Take(DictGet(claims_data, "cityData", PyNone).items, CityLimit)
             bad == {i \in 1..Len(shown) : ~IsDict(shown[i])}
         IN  IF bad # {}
             THEN Raised(NoGetError(shown[CHOOSE i \in bad : \A j \in bad : i <= j]))
             ELSE Returned(<< << <<>>, <<"City-wise Distribution:">> >> >>
                           \o [i \in 1..Len(shown) |-> << CityLine(shown[i]) >>])
    ELSE Returned(<<>>)

RecentLine(claim) ==
    <<"  - ", Render(DictGet(claim, "claimNumber", PyStr("Unknown"))),
      ": ", Render(DictGet(claim, "patientName", PyStr("Unknown"))),
      " (", Render(DictGet(claim, "status", PyStr("Unknown"))),
      ") - ", Render(DictGet(claim, "city", PyStr("Unknown"))),
      " - $", Render(DictGet(claim, "amount", PyInt(0)))>>

\* the loop over recent[:5]
RecentParts(claims_data) ==
    IF DictHas(claims_data, "recentClaims")
       /\ IsList(DictGet(claims_data, "recentClaims", PyNone))
       /\ Truthy(DictGet(claims_data, "recentClaims", PyNone))
    THEN LET shown == Take(DictGet(claims_data, "recentClaims", PyNone).items, RecentLimit)
             bad == {i \in 1..Len(shown) : ~IsDict(shown[i])}
         IN  IF bad # {}
             THEN Raised(NoGetError(shown[CHOOSE i \in bad : \A j \in bad : i <= j]))
             ELSE Returned(<< << <<>>, <<"Recent Claims (sample):">> >> >>
                           \o [i \in 1..Len(shown) |-> << RecentLine(shown[i]) >>])
    ELSE Returned(<<>>)

\* the three sections in the order the code appends them: a loop that raises
\* ends the call
SummaryParts(statistics, cities, recent) ==
    IF cities.raised THEN cities
    ELSE IF recent.raised THEN recent
    ELSE Returned(statistics \o cities.value \o recent.value)

\* summary_parts of _format_claims_data_summary, for a dict
ClaimsSummaryParts(claims_data) ==
    SummaryParts(StatisticsParts(claims_data), CityParts(claims_data),
                 RecentParts(claims_data))

\* "\n".join(summary_parts), unless a loop raised
JoinedParts(parts) == IF parts.raised THEN parts ELSE Returned(JoinLines(parts.value))

_format_claims_data_summary(claims_data) ==
    IF ~IsDict(claims_data)
    THEN Returned(<< <<"No claims statistics available.">> >>)
    ELSE JoinedParts(ClaimsSummaryParts(claims_data))

\* two decimal digits
TwoDigits(n) == <<ToString(n \div 10), ToString(n % 10)>>

\* datetime.fromtimestamp(ms / 1000).strftime("%H:%M:%S"), the host's zone being UTC
TimeStr(ms) ==
    LET secs == ms \div 1000
    IN  TwoDigits((secs \div 3600) % 24) \o <<":">>
        \o TwoDigits((secs \div 60) % 60) \o <<":">> \o TwoDigits(secs % 60)

Indent(n) == [i \in 1..n |-> "  "]

\* str(v) in JSON syntax, for a scalar
JsonScalar(v) ==
    CASE v.ty = "none" -> <<"null">>
      [] v.ty = "int" -> <<ToString(v.n)>>
      [] v.ty = "str" -> <<"\"", v.s, "\"">>

\* whether json.dumps accepts v
RECURSIVE JsonSerializable(_)
JsonSerializable(v) ==
    CASE v.ty = "object" -> FALSE
      [] v.ty = "list" -> \A i \in 1..Len(v.items) : JsonSerializable(v.items[i])
      [] v.ty = "dict" -> \A i \in 1..Len(v.pairs) : JsonSerializable(v.pairs[i][2])
      [] OTHER -> TRUE

\* the lines of json.dumps(v, indent=2) for v nested depth levels deep; the
\* first line carries no indentation of its own
RECURSIVE JsonLines(_, _)
JsonLines(v, depth) ==
    LET Member(lines, prefix, last) ==
            [k \in 1..Len(lines) |->
                (IF k = 1 THEN Indent(depth + 1) \o prefix ELSE <<>>) \o lines[k]
                \o (IF k = Len(lines) /\ ~last THEN <<",">> ELSE <<>>)]
    IN  CASE v.ty = "list" /\ Len(v.items) = 0 -> << <<"[]">> >>
          [] v.ty = "dict" /\ Len(v.pairs) = 0 -> << <<"{}">> >>
          [] v.ty = "list" /\ Len(v.items) > 0 ->
                << <<"[">> >>
                \o Flatten([i \in 1..Len(v.items) |->
                       Member(JsonLines(v.items[i], depth + 1), <<>>, i = Len(v.items))])
                \o << Indent(depth) \o <<"]">> >>
          [] v.ty = "dict" /\ Len(v.pairs) > 0 ->
                << <<"{">> >>
                \o Flatten([i \in 1..Len(v.pairs) |->
                       Member(JsonLines(v.pairs[i][2], depth + 1),
                              <<"\"", v.pairs[i][1], "\": ">>, i = Len(v.pairs))])
                \o << Indent(depth) \o <<"}">> >>
          [] OTHER -> << JsonScalar(v) >>

\* json.dumps(action_data, indent=2), or str(action_data) when that raises
FormattedActionData(action_data) ==
    IF JsonSerializable(action_data)
    THEN JsonLines(action_data, 0)
    ELSE << <<Render(action_data)>> >>

\* whether timestamp / 1000 raises TypeError
BadTimestamp(event) ==
    LET timestamp == DictGet(event, "timestamp", PyInt(0))
    IN  Truthy(timestamp) /\ timestamp.ty # "int"

\* variant: the transition is always rendered with an arrow
EventPartsArrowOnly(event) ==
    LET timestamp == DictGet(event, "timestamp", PyInt(0))
        from_node == DictGet(event, "fromNodeId", PyNone)
        to_node == DictGet(event, "toNodeId", PyNone)
        reason == DictGet(event, "reason", PyStr(""))
        action == DictGet(event, "action", PyNone)
        time_str == IF Truthy(timestamp) THEN TimeStr(timestamp.n) ELSE <<"N/A">>
    IN  << << <<"  [">> \o time_str \o <<"] ">>
              \o <<Render(from_node), " -> ", Render(to_node)>> >> >>
        \o (IF Truthy(reason) THEN << << <<"    reason: ", Render(reason)>> >> >> ELSE <<>>)
        \o (IF Truthy(action) THEN << << <<"    action: ", Render(action)>> >> >> ELSE <<>>)

\* the parts one dict entry appends to summary_parts
EventParts(event) ==
    LET timestamp == DictGet(event, "timestamp", PyInt(0))
        from_node == DictGet(event, "fromNodeId", PyNone)
        to_node == DictGet(event, "toNodeId", PyNone)
        reason == DictGet(event, "reason", PyStr(""))
        action == DictGet(event, "action", PyNone)
        action_data == DictGet(event, "actionData", PyNone)
        time_str == IF Truthy(timestamp) THEN TimeStr(timestamp.n) ELSE <<"N/A">>
        event_desc == IF Truthy(from_node)
                      THEN <<Render(from_node), " -> ", Render(to_node)>>
                      ELSE <<"Started: ", Render(to_node)>>
    IN  << << <<"  [">> \o time_str \o <<"] ">> \o event_desc >> >>
        \o (IF Truthy(reason) THEN << << <<"    reason: ", Render(reason)>> >> >> ELSE <<>>)
        \o (IF Truthy(action) THEN << << <<"    action: ", Render(action)>> >> >> ELSE <<>>)
        \o (IF Truthy(action_data)
            THEN << << <<"    actionData:">> >> >>
                 \o LET lines == FormattedActionData(action_data)
                    IN  [k \in 1..Len(lines) |-> << <<"      ">> \o lines[k] >>]
            ELSE <<>>)

\* isinstance(raw_event, dict): the entries the loop does not skip
IsStructured(raw_event) == IsDict(raw_event)

\* variant: the loop ends at the first entry that is no dict
TimelinePartsUntilUnstructured(event_log) ==
    LET junk == {i \in 1..Len(event_log) : ~IsDict(event_log[i])}
        events == IF junk = {} THEN event_log
                  ELSE SubSeq(event_log, 1, (CHOOSE i \in junk : \A j \in junk : i <= j) - 1)
        bad == {i \in 1..Len(events) : BadTimestamp(events[i])}
    IN  IF bad # {}
        THEN Raised(<<"unsupported operand type(s) for /">>)
        ELSE Returned(Flatten([i \in 1..Len(events) |-> EventParts(events[i])]))

\* the loop of _format_event_log_summary: entries that are no dict are skipped,
\* the first dict entry whose timestamp cannot be divided raises
TimelineParts(event_log) ==
    LET events == SelectSeq(event_log, IsStructured)
        bad == {i \in 1..Len(events) : BadTimestamp(events[i])}
    IN  IF bad # {}
        THEN Raised(<<"unsupported operand type(s) for /: '",
                      DictGet(events[CHOOSE i \in bad : \A j \in bad : i <= j],
                              "timestamp", PyInt(0)).ty,
                      "' and 'int'">>)
        ELSE Returned(Flatten([i \in 1..Len(events) |-> EventParts(events[i])]))

\* the two heading parts, then the timeline
EventLogSummary(count, timeline) ==
    IF timeline.raised THEN timeline
    ELSE Returned(JoinLines(
             << << <<"Total Events Recorded: ", ToString(count)>> >>,
                << <<>>, <<"Chronological Activity Timeline (latest last):">> >> >>
             \o timeline.value))

_format_event_log_summary(event_log) ==
    IF ~IsList(event_log) \/ ~Truthy(event_log)
    THEN Returned(<< <<"No agent activity events recorded yet.">> >>)
    ELSE EventLogSummary(Len(event_log.items), TimelineParts(event_log.items))

\* prompt_parts joined, given the two summaries
DashboardPrompt(has_claims, has_log, claims_summary, event_log_summary) ==
    IF claims_summary.raised THEN claims_summary
    ELSE IF event_log_summary.raised THEN event_log_summary
    ELSE Returned(JoinLines(
           << DashboardBasePrompt >>
           \o (IF has_claims
               THEN << << <<>>, ClaimsHeader >> \o claims_summary.value >>
               ELSE <<>>)
           \o (IF has_log
               THEN << << <<>>, ActivityHeader >> \o event_log_summary.value,
                       << <<>>, <<"Use the activity log to answer questions about the claims process agent stages, actions taken, extracted information, branching decisions, and outcomes.">> >> >>
               ELSE <<>>)
           \o (IF has_claims \/ has_log
               THEN << << <<>>, <<"Use this data to provide accurate and relevant responses.">> >> >>
               ELSE <<>>)))

\* claims_data if isinstance(claims_data, dict) else None
DictOrNone(v) == IF IsDict(v) THEN v ELSE PyNone

\* event_log if isinstance(event_log, list) else None
ListOrNone(v) == IF IsList(v) THEN v ELSE PyNone

_create_dashboard_prompt(claims_data, event_log) ==
    DashboardPrompt(
        Truthy(DictOrNone(claims_data)),
        Truthy(ListOrNone(event_log)),
        IF Truthy(DictOrNone(claims_data))
        THEN _format_claims_data_summary(DictOrNone(claims_data)) ELSE Returned(<<>>),
        IF Truthy(ListOrNone(event_log))
        THEN _format_event_log_summary(ListOrNone(event_log)) ELSE Returned(<<>>))

----------------------------------------------------------------------------
(* The model API as the services see it *)

\* what one POST to the chat-completions endpoint comes back with:
\*   net     "error" when requests.post itself raises (time-out, no connection)
\*   status  the HTTP status code
\*   text    the response body as text
\*   json    "invalid" (response.json() raises), "no_choices", or "choices"
\*   content the first choice's message content: a str, or None
Upstream(net, status, text, json, content) ==
    [net |-> net, status |-> status, text |-> text, json |-> json, content |-> content]

NoContent == [ty |-> "none", chars |-> <<>>]

TextContent(chars) == [ty |-> "str", chars |-> chars]

HttpOk == 200

StatusStr(status) == ToString(status)

----------------------------------------------------------------------------
(* ChatService.chat and its model client (chat_service.py) *)

ChatTimeout == 30

HistoryLimit == 20

\* variant: a client that does not look at the HTTP status
ChatCallBodyAnyStatus(up) ==
    IF up.net = "error" THEN Raised(<<"Connection error">>)
    ELSE IF up.json = "invalid" THEN Raised(<<"Expecting value">>)
    ELSE IF up.json = "choices" THEN Returned(up.content)
    ELSE Raised(<<"No response content from Azure OpenAI">>)

\* the try block of _call_azure_openai
ChatCallBody(up) ==
    IF up.net = "error" THEN Raised(<<"Connection error">>)
    ELSE IF up.status # HttpOk
    THEN Raised(<<"Azure OpenAI API error: ", StatusStr(up.status), " - ", up.text>>)
    ELSE IF up.json = "invalid" THEN Raised(<<"Expecting value">>)
    ELSE IF up.json = "choices" THEN Returned(up.content)
    ELSE Raised(<<"No response content from Azure OpenAI">>)

\* its except clause: every failure is raised again, wrapped
Rewrapped(inner) ==
    IF inner.raised THEN Raised(<<"Error calling Azure OpenAI: ">> \o inner.exc) ELSE inner

\* _call_azure_openai: one POST
ChatCall(msgs, up) == Rewrapped(ChatCallBody(up))

ChatPost(msgs) == [api |-> "azure_openai", timeout |-> ChatTimeout, messages |-> msgs]

\* variant: the oldest entries are kept instead of the most recent
LimitedHistoryOldest(chat_history) == Take(chat_history, HistoryLimit)

\* chat_history[-20:] if len(chat_history) > 20 else chat_history
LimitedHistory(chat_history) ==
    IF Len(chat_history) > HistoryLimit
    THEN PyLast(chat_history, HistoryLimit)
    ELSE chat_history

SystemPrompt(context_type, claims_data, event_log) ==
    CASE context_type = "dashboard" -> _create_dashboard_prompt(claims_data, event_log)
      [] context_type = "document" -> Returned(DocumentPrompt)
      [] OTHER -> Returned(GeneralPrompt)

BuildMessages(system_prompt, user_message, chat_history) ==
    << [role |-> "system", content |-> system_prompt] >>
    \o (IF Len(chat_history) > 0 THEN LimitedHistory(chat_history) ELSE <<>>)
    \o << [role |-> "user", content |-> user_message] >>

ChatFailure(error) ==
    [keys |-> {"success", "error"}, success |-> FALSE, response |-> NoContent, error |-> error]

ChatSuccess(response) ==
    [keys |-> {"success", "response"}, success |-> TRUE, response |-> response, error |-> <<>>]

NotConfiguredError ==
    <<"Azure OpenAI is not configured. Please set AZURE_OPENAI_ENDPOINT and AZURE_OPENAI_KEY in your .env file.">>

\* the result once the model client has returned or raised
ChatResult(call) ==
    IF call.raised
    THEN ChatFailure(<<"Azure OpenAI API error: ">> \o call.exc)
    ELSE ChatSuccess(call.value)

\* variant: a chat that calls the model without looking at self.configured
ChatSendUnchecked(configured, msgs, up) ==
    [messages |-> msgs, posts |-> << ChatPost(msgs) >>,
     result |-> ChatResult(ChatCall(msgs, up))]

\* chat from the configuration check on
ChatSend(configured, msgs, up) ==
    IF ~configured
    THEN [messages |-> msgs, posts |-> <<>>, result |-> ChatFailure(NotConfiguredError)]
    ELSE [messages |-> msgs, posts |-> << ChatPost(msgs) >>,
          result |-> ChatResult(ChatCall(msgs, up))]

\* variant: an exception raised while the prompt is built leaves chat
ChatWithPromptUncaught(configured, system_prompt, user_message, chat_history, up) ==
    IF system_prompt.raised
    THEN [messages |-> <<>>, posts |-> <<>>,
          result |-> [raised |-> TRUE, exc |-> system_prompt.exc]]
    ELSE ChatSend(configured,
                  BuildMessages(system_prompt.value, user_message, chat_history), up)

\* chat once the system prompt is built, or building it has raised
ChatWithPrompt(configured, system_prompt, user_message, chat_history, up) ==
    IF system_prompt.raised
    THEN [messages |-> <<>>, posts |-> <<>>,
          result |-> ChatFailure(<<"Error processing chat request: ">> \o system_prompt.exc)]
    ELSE ChatSend(configured,
                  BuildMessages(system_prompt.value, user_message, chat_history), up)

\* ChatService.chat: the messages it built, the POSTs it issued, its result
chat(configured, user_message, chat_history, context_type, claims_data, event_log, up) ==
    ChatWithPrompt(configured, SystemPrompt(context_type, claims_data, event_log),
                   user_message, chat_history, up)

\* ChatService.__init__: self.configured
ChatConfigured(e) == e.openai_endpoint /\ e.openai_key

----------------------------------------------------------------------------
(* json.loads on the JSON texts the model draws (a str is a sequence of     *)
(* one-character tokens): null, true, false, unsigned integers, strings     *)
(* without escapes, arrays and objects                                      *)

Whitespace == {" ", "\n", "\t", "\r"}

Digits == {"0", "1", "2", "3", "4", "5", "6", "7", "8", "9"}

DigitVal(c) == CHOOSE d \in 0..9 : ToString(d) = c

CharAt(s, i) == IF i >= 1 /\ i <= Len(s) THEN s[i] ELSE "<eof>"

\* the first index at or after i that holds no whitespace
SkipWs(s, i) ==
    CHOOSE j \in i..(Len(s) + 1) :
        /\ CharAt(s, j) \notin Whitespace
        /\ \A k \in i..(j - 1) : CharAt(s, k) \in Whitespace

\* the first index at or after i that holds no digit
SkipDigits(s, i) ==
    CHOOSE j \in i..(Len(s) + 1) :
        /\ CharAt(s, j) \notin Digits
        /\ \A k \in i..(j - 1) : CharAt(s, k) \in Digits

RECURSIVE NumberVal(_)
NumberVal(ds) ==
    IF ds = <<>> THEN 0 ELSE 10 * NumberVal(SubSeq(ds, 1, Len(ds) - 1)) + DigitVal(ds[Len(ds)])

JNull == [ty |-> "none"]

JBool(b) == [ty |-> "bool", b |-> b]

JNum(n) == [ty |-> "int", n |-> n]

JStr(chars) == [ty |-> "str", chars |-> chars]

JArr(items) == [ty |-> "list", items |-> items]

JObj(pairs) == [ty |-> "dict", pairs |-> pairs]

Parsed(v, next) == [ok |-> TRUE, val |-> v, next |-> next, err |-> <<>>]

ParseFail(msg, at) == [ok |-> FALSE, val |-> JNull, next |-> at, err |-> <<msg, ToString(at - 1)>>]

\* d[k] = v on an insertion-ordered dict
PairsSet(pairs, k, v) ==
    IF \E i \in 1..Len(pairs) : pairs[i][1] = k
    THEN [i \in 1..Len(pairs) |-> IF pairs[i][1] = k THEN <<k, v>> ELSE pairs[i]]
    ELSE Append(pairs, <<k, v>>)

\* a string literal whose opening quote is at i
ParseString(s, i) ==
    LET ends == {j \in (i + 1)..Len(s) : s[j] = "\""}
    IN  IF ends = {} THEN ParseFail("Unterminated string starting at: char ", i)
        ELSE LET j == CHOOSE e \in ends : \A f \in ends : e <= f
                 body == SubSeq(s, i + 1, j - 1)
             IN  IF \E k \in 1..Len(body) : body[k] \in {"\n", "\t", "\r"}
                 THEN ParseFail("Invalid control character at: char ", i + 1)
                 ELSE Parsed(JStr(body), j + 1)

RECURSIVE ParseValue(_, _), ParseElements(_, _, _), ParseMembers(_, _, _)

\* scan_once: the value that starts at index i
ParseValue(s, i) ==
    LET c == CharAt(s, i)
    IN  CASE c = "\"" -> ParseString(s, i)
          [] c = "{" ->
                IF CharAt(s, SkipWs(s, i + 1)) = "}"
                THEN Parsed(JObj(<<>>), SkipWs(s, i + 1) + 1)
                ELSE ParseMembers(s, SkipWs(s, i + 1), <<>>)
          [] c = "[" ->
                IF CharAt(s, SkipWs(s, i + 1)) = "]"
                THEN Parsed(JArr(<<>>), SkipWs(s, i + 1) + 1)
                ELSE ParseElements(s, SkipWs(s, i + 1), <<>>)
          [] c = "n" /\ SubSeq(s, i, Min(i + 3, Len(s))) = <<"n", "u", "l", "l">> ->
                Parsed(JNull, i + 4)
          [] c = "t" /\ SubSeq(s, i, Min(i + 3, Len(s))) = <<"t", "r", "u", "e">> ->
                Parsed(JBool(TRUE), i + 4)
          [] c = "f" /\ SubSeq(s, i, Min(i + 4, Len(s))) = <<"f", "a", "l", "s", "e">> ->
                Parsed(JBool(FALSE), i + 5)
          [] c = "0" -> Parsed(JNum(0), i + 1)
          [] c \in Digits \ {"0"} ->
                Parsed(JNum(NumberVal(SubSeq(s, i, SkipDigits(s, i) - 1))), SkipDigits(s, i))
          [] OTHER -> ParseFail("Expecting value: char ", i)

\* JSONArray after "[": the next element starts at i
ParseElements(s, i, acc) ==
    LET elem == ParseValue(s, i)
        j == SkipWs(s, elem.next)
    IN  IF ~elem.ok THEN elem
        ELSE IF CharAt(s, j) = "]" THEN Parsed(JArr(Append(acc, elem.val)), j + 1)
        ELSE IF CharAt(s, j) = ","
        THEN ParseElements(s, SkipWs(s, j + 1), Append(acc, elem.val))
        ELSE ParseFail("Expecting ',' delimiter: char ", j)

\* JSONObject after "{": the next key starts at i
ParseMembers(s, i, acc) ==
    IF CharAt(s, i) # "\""
    THEN ParseFail("Expecting property name enclosed in double quotes: char ", i)
    ELSE LET key == ParseString(s, i)
             colon == SkipWs(s, key.next)
             member == ParseValue(s, SkipWs(s, colon + 1))
             j == SkipWs(s, member.next)
         IN  IF ~key.ok THEN key
             ELSE IF CharAt(s, colon) # ":" THEN ParseFail("Expecting ':' delimiter: char ", colon)
             ELSE IF ~member.ok THEN member
             ELSE IF CharAt(s, j) = "}"
             THEN Parsed(JObj(PairsSet(acc, key.val.chars, member.val)), j + 1)
             ELSE IF CharAt(s, j) = ","
             THEN ParseMembers(s, SkipWs(s, j + 1), PairsSet(acc, key.val.chars, member.val))
             ELSE ParseFail("Expecting ',' delimiter: char ", j)

\* the whole text must be one value
LoadsResult(s, v) ==
    IF ~v.ok THEN Raised(v.err)
    ELSE IF SkipWs(s, v.next) # Len(s) + 1
    THEN Raised(<<"Extra data: char ", ToString(SkipWs(s, v.next) - 1)>>)
    ELSE Returned(v.val)

\* json.loads(s): the value, or the JSONDecodeError's message
json_loads(s) == LoadsResult(s, ParseValue(s, SkipWs(s, 1)))

----------------------------------------------------------------------------
(* PDFIngestionService (pdf_ingestion_service.py) *)

\* the characters str.strip() removes: more than JSON's whitespace
FormFeed == "<formfeed>"

PyWhitespace == Whitespace \cup {FormFeed}

RECURSIVE LStrip(_, _)
LStrip(s, cs) == IF s # <<>> /\ Head(s) \in cs THEN LStrip(Tail(s), cs) ELSE s

RECURSIVE RStrip(_, _)
RStrip(s, cs) ==
    IF s # <<>> /\ s[Len(s)] \in cs THEN RStrip(SubSeq(s, 1, Len(s) - 1), cs) ELSE s

\* s.strip() and s.strip(chars)
Strip(s, cs) == RStrip(LStrip(s, cs), cs)

\* sep.join(chunks)
RECURSIVE JoinChars(_, _)
JoinChars(chunks, sep) ==
    IF chunks = <<>> THEN <<>>
    ELSE IF Len(chunks) = 1 THEN chunks[1]
    ELSE chunks[1] \o sep \o JoinChars(Tail(chunks), sep)

\* variant: the slice keeps one character more
PySliceToOneMore(s, n) == Take(s, n + 1)

\* s[:n] for any integer n
PySliceTo(s, n) == IF n >= 0 THEN Take(s, n) ELSE Take(s, Max(0, Len(s) + n))

BlankLine == <<"\n", "\n">>

\* a page's extract_text(): it raises, or returns None, or returns a str
PageRaises == [kind |-> "raises", chars |-> <<>>]

PageNone == [kind |-> "none", chars |-> <<>>]

PageText(chars) == [kind |-> "str", chars |-> chars]

\* (page.extract_text() or "") with the except clause, then .strip()
PageChunk(page) == Strip(IF page.kind = "str" THEN page.chars ELSE <<>>, PyWhitespace)

NonEmpty(chunk) == chunk # <<>>

\* "\n\n".join(chunk for chunk in text_chunks if chunk)
JoinedPageText(pdf) ==
    JoinChars(SelectSeq([i \in 1..Len(pdf.pages) |-> PageChunk(pdf.pages[i])], NonEmpty),
              BlankLine)

Extracted(page_count, text, truncated_text, max_chars) ==
    [text |-> truncated_text,
     metadata |-> [page_count |-> page_count,
                   truncated |-> Len(truncated_text) < Len(text),
                   character_count |-> Len(truncated_text),
                   max_chars |-> max_chars]]

_extract_pdf_text(pdf, max_chars) ==
    Extracted(Len(pdf.pages), JoinedPageText(pdf),
              PySliceTo(JoinedPageText(pdf), max_chars), max_chars)

\* how pdfium fares on the document: fail is "none", "open" (PdfDocument
\* raises) or "page" (rendering page number at raises)
RenderPlan(fail, at) == [fail |-> fail, at |-> at]

PageImage(index) == [jpeg_of_page |-> index]

NoResolution == [set |-> FALSE, scale |-> 0]

RenderScale == 2

_render_pdf_images(pdf, max_pages, plan) ==
    LET wanted == Max(0, Min(Len(pdf.pages), max_pages))
        done == IF plan.fail = "open" THEN 0
                ELSE IF plan.fail = "page" /\ plan.at <= wanted THEN plan.at - 1
                ELSE wanted
        failed == plan.fail = "open" \/ (plan.fail = "page" /\ plan.at <= wanted)
    IN  [images |-> [i \in 1..done |-> PageImage(i - 1)],
         image_info |-> [rendered_page_count |-> IF failed THEN 0 ELSE done,
                         max_pages |-> IF plan.fail = "open" THEN 0 ELSE max_pages,
                         image_resolution |-> IF done > 0
                                              THEN [set |-> TRUE, scale |-> RenderScale]
                                              ELSE NoResolution]]

\* what the POST to the OCR endpoint comes back with; json is "invalid" or "ok",
\* and the body holds output.text, output.pages[].text and pages[].text, each a
\* str (a sequence of characters) or absent
OcrUpstream(net, status, json, output_text, output_pages, pages) ==
    [net |-> net, status |-> status, json |-> json,
     output_text |-> output_text, output_pages |-> output_pages, pages |-> pages]

OcrTimeout == 120

OcrPost == [api |-> "mistral_ocr", timeout |-> OcrTimeout, messages |-> <<>>]

\* _call_mistral_document_ai: the combined text, or None
NoText == [ty |-> "none", chars |-> <<>>]

SomeText(chars) == [ty |-> "str", chars |-> chars]

StripWs(s) == Strip(s, PyWhitespace)

\* combined.strip() or None
TextOrNone(combined) == IF combined = <<>> THEN NoText ELSE SomeText(combined)

\* "\n\n".join(fragment.strip() for fragment in text_fragments)
CombinedFragments(text_fragments) ==
    JoinChars([i \in 1..Len(text_fragments) |-> StripWs(text_fragments[i])], BlankLine)

_call_mistral_document_ai(ocr) ==
    IF ocr.net = "error" \/ ocr.status # HttpOk \/ ocr.json = "invalid"
    THEN NoText
    ELSE TextOrNone(StripWs(CombinedFragments(
             ocr.output_text \o ocr.output_pages \o ocr.pages)))

PdfTimeout == 60

\* the user prompt's f-string, field by field
UserPrompt(include_text, document_text, file_name, metadata) ==
    IF include_text
    THEN [kind |-> "text", file_name |-> file_name, page_count |-> metadata.page_count,
          character_count |-> metadata.character_count, truncated |-> metadata.truncated,
          document_text |-> document_text]
    ELSE [kind |-> "images_only", file_name |-> file_name, page_count |-> metadata.page_count,
          character_count |-> 0, truncated |-> FALSE, document_text |-> <<>>]

ImagePart(image, idx) ==
    [type |-> "image_base64", image_base64 |-> image, mime_type |-> "image/jpeg",
     page_index |-> idx]

\* _build_prompt, the reference examples taken as loaded
_build_prompt(include_text, document_text, file_name, metadata, page_images) ==
    << [role |-> "system", content |-> <<"instructions", "examples_snippet">>],
       [role |-> "user",
        content |-> [text |-> UserPrompt(include_text, document_text, file_name, metadata),
                     images |-> [i \in 1..Len(page_images) |->
                                    ImagePart(page_images[i], i - 1)]]] >>

PdfPost(msgs) == [api |-> "azure_openai", timeout |-> PdfTimeout, messages |-> msgs]

\* PDFIngestionService._call_azure_openai: one POST, nothing caught
PdfCall(up) ==
    IF up.net = "error" THEN Raised(<<"Connection error">>)
    ELSE IF up.status # HttpOk
    THEN Raised(<<"Azure OpenAI API error: ", StatusStr(up.status), " - ", up.text>>)
    ELSE IF up.json = "invalid" THEN Raised(<<"Expecting value">>)
    ELSE IF up.json = "choices" THEN Returned(up.content)
    ELSE Raised(<<"Azure OpenAI response did not include choices.">>)

\* the backtick character (written out: the lexer pairs a bare one with a later quote)
Backtick == "<backtick>"

Fence == <<Backtick, Backtick, Backtick>>

JsonTag == <<"j", "s", "o", "n">>

\* variant: the language tag is left in place
UntaggedKept(cleaned) == cleaned

\* if cleaned.startswith("json"): cleaned = cleaned[4:]
Untagged(cleaned) ==
    IF StartsWith(cleaned, JsonTag) THEN Drop(cleaned, Len(JsonTag)) ELSE cleaned

\* if cleaned.startswith("```"): cleaned = cleaned.strip("`") and the tag removed
Unfenced(cleaned) ==
    IF StartsWith(cleaned, Fence) THEN Untagged(Strip(cleaned, {Backtick})) ELSE cleaned

\* the text json.loads is given
Cleaned(raw) == Unfenced(StripWs(raw))

\* variant: a failed parse leaves no error message
ParseOutcomeSilent(loaded) ==
    [parsed_json |-> IF loaded.raised THEN JNull ELSE loaded.value, error |-> <<>>]

ParseOutcome(loaded) ==
    IF loaded.raised
    THEN [parsed_json |-> JNull, error |-> loaded.exc]
    ELSE [parsed_json |-> loaded.value, error |-> <<>>]

\* _safe_parse_json(raw_response): (parsed_json, error_message); a content of
\* None has no strip() and ends in the except clause as well
_safe_parse_json(raw_response) ==
    IF raw_response.ty = "none"
    THEN [parsed_json |-> JNull, error |-> <<"'NoneType' object has no attribute 'strip'">>]
    ELSE ParseOutcome(json_loads(Cleaned(raw_response.chars)))

\* PDFIngestionService.__init__: self.configured
PdfConfigured(e) == e.openai_endpoint /\ e.openai_key /\ e.openai_deployment

\* the condition under which process_pdf calls the OCR endpoint
OcrAttempted(e) == e.include_text /\ e.use_mistral_ocr /\ e.mistral_key

PdfRaise(type, msg, sent) == [raised |-> TRUE, exc_type |-> type, exc |-> msg, posts |-> sent]

\* the result dict; parse_error is set when the error message is not empty
ExtractionResult(file_name, metadata, sent, raw_response, parse) ==
    [raised |-> FALSE, exc_type |-> "", exc |-> <<>>, posts |-> sent,
     keys |-> {"file_name", "metadata", "raw_response", "parsed_json"}
              \cup (IF parse.error # <<>> THEN {"parse_error"} ELSE {}),
     file_name |-> file_name, metadata |-> metadata, raw_response |-> raw_response,
     parsed_json |-> parse.parsed_json, parse_error |-> parse.error]

\* process_pdf from the model call on
Responded(file_name, metadata, sent, call, up) ==
    IF call.raised
    THEN PdfRaise(IF up.net = "error" THEN "ConnectionError"
                  ELSE IF up.status = HttpOk /\ up.json = "invalid" THEN "JSONDecodeError"
                  ELSE "RuntimeError",
                  call.exc, sent)
    ELSE ExtractionResult(file_name, metadata, sent, call.value,
                          _safe_parse_json(call.value))

\* variant: the model is called whether or not there is text
PromptedWithoutText(e, file_name, text, metadata, page_images, ocr_posts, up) ==
    Responded(file_name, metadata,
              ocr_posts \o << PdfPost(_build_prompt(e.include_text,
                                  IF e.include_text THEN text ELSE <<>>,
                                  file_name, metadata, page_images)) >>,
              PdfCall(up), up)

\* process_pdf from the check of the text on
Prompted(e, file_name, text, metadata, page_images, ocr_posts, up) ==
    IF e.include_text /\ StripWs(text) = <<>>
    THEN PdfRaise("ValueError", <<"Unable to extract readable text from PDF.">>, ocr_posts)
    ELSE Responded(file_name, metadata,
                   ocr_posts \o << PdfPost(_build_prompt(e.include_text,
                                       IF e.include_text THEN text ELSE <<>>,
                                       file_name, metadata, page_images)) >>,
                   PdfCall(up), up)

\* variant: the text source is never updated
MetadataSourceFixed(extracted, ocr_attempted, mistral_text, image_info) ==
    [page_count |-> extracted.metadata.page_count,
     truncated |-> extracted.metadata.truncated,
     character_count |-> extracted.metadata.character_count,
     max_chars |-> extracted.metadata.max_chars,
     text_source |-> "pypdf",
     ocr_warning |-> ocr_attempted /\ mistral_text.ty # "str",
     rendered_page_count |-> image_info.rendered_page_count,
     max_pages |-> image_info.max_pages,
     image_resolution |-> image_info.image_resolution]

\* metadata after text_source, ocr_warning and the image info are set
Metadata(extracted, ocr_attempted, mistral_text, image_info) ==
    [page_count |-> extracted.metadata.page_count,
     truncated |-> extracted.metadata.truncated,
     character_count |-> extracted.metadata.character_count,
     max_chars |-> extracted.metadata.max_chars,
     text_source |-> IF mistral_text.ty = "str" THEN "mistral_document_ai" ELSE "pypdf",
     ocr_warning |-> ocr_attempted /\ mistral_text.ty # "str",
     rendered_page_count |-> image_info.rendered_page_count,
     max_pages |-> image_info.max_pages,
     image_resolution |-> image_info.image_resolution]

\* variant: the OCR endpoint is asked twice
GatheredOcrTwice(e, file_name, extracted, mistral_text, rendered, up) ==
    Prompted(e, file_name,
             IF mistral_text.ty = "str" THEN mistral_text.chars ELSE extracted.text,
             Metadata(extracted, OcrAttempted(e), mistral_text, rendered.image_info),
             rendered.images,
             IF OcrAttempted(e) THEN << OcrPost, OcrPost >> ELSE <<>>,
             up)

\* process_pdf once the text, the OCR text and the images are there
Gathered(e, file_name, extracted, mistral_text, rendered, up) ==
    Prompted(e, file_name,
             IF mistral_text.ty = "str" THEN mistral_text.chars ELSE extracted.text,
             Metadata(extracted, OcrAttempted(e), mistral_text, rendered.image_info),
             rendered.images,
             IF OcrAttempted(e) THEN << OcrPost >> ELSE <<>>,
             up)

\* process_pdf: what it raises or returns, and the POSTs it issued
process_pdf(e, pdf, file_name, max_chars, max_pages, plan, ocr, up) ==
    IF ~PdfConfigured(e)
    THEN PdfRaise("ValueError", <<"Azure OpenAI credentials not configured. ">>, <<>>)
    ELSE Gathered(e, file_name,
                  _extract_pdf_text(pdf, max_chars),
                  IF OcrAttempted(e) THEN _call_mistral_document_ai(ocr) ELSE NoText,
                  _render_pdf_images(pdf, max_pages, plan),
                  up)

----------------------------------------------------------------------------
(* The event-log endpoints (main.py) *)

\* str.replace(old, new), character by character
Replace(s, old, new) == [i \in 1..Len(s) |-> IF s[i] = old THEN new ELSE s[i]]

\* claim_number.replace(" ", "_").replace("/", "_")
SafeClaimNumber(claim_number) == Replace(Replace(claim_number, " ", "_"), "/", "_")

\* datetime.now().strftime("%Y%m%d_%H%M%S"): one name per second
Stamp(now) == <<"t", ToString(now)>>

TimestampedName(claim_number, now) ==
    SafeClaimNumber(claim_number) \o <<"_">> \o Stamp(now) \o <<".json">>

LatestName(claim_number) == SafeClaimNumber(claim_number) \o <<"_latest.json">>

LogData(claim_number, patient_name, event_log, now) ==
    [claim_number |-> claim_number, patient_name |-> patient_name,
     timestamp |-> now, events |-> event_log]

\* open(path, 'w') and json.dump
WriteFile(dir, name, data) ==
    [n \in DOMAIN dir \cup {name} |-> IF n = name THEN data ELSE dir[n]]

\* save_event_log: the directory afterwards
SaveFiles(dir, claim_number, patient_name, event_log, now) ==
    LET log_data == LogData(claim_number, patient_name, event_log, now)
    IN  WriteFile(WriteFile(dir, TimestampedName(claim_number, now), log_data),
                  LatestName(claim_number), log_data)

SaveResponse(claim_number, event_log, now) ==
    [success |-> TRUE, filepath |-> TimestampedName(claim_number, now),
     event_count |-> Len(event_log)]

NotFound == [success |-> FALSE, found |-> FALSE]

Found(log_data) == [success |-> TRUE, found |-> TRUE, data |-> log_data]

\* get_event_log: its response
GetResponse(dir, claim_number) ==
    IF LatestName(claim_number) \notin DOMAIN dir
    THEN NotFound
    ELSE Found(dir[LatestName(claim_number)])

----------------------------------------------------------------------------
(* The inputs the model draws *)

Environments ==
    [openai_endpoint : BOOLEAN, openai_key : BOOLEAN, openai_deployment : BOOLEAN,
     include_text : BOOLEAN, use_mistral_ocr : BOOLEAN, mistral_key : BOOLEAN]

\* the environments that differ in the chat service's credentials only
ChatEnvironments ==
    {e \in Environments :
        e.openai_deployment /\ e.include_text /\ ~e.use_mistral_ocr /\ ~e.mistral_key}

\* the environments in which the extraction service is configured
PdfEnvironments ==
    {e \in Environments : e.openai_endpoint /\ e.openai_key /\ e.openai_deployment}

UserMessage == << <<"What's the denial rate?">> >>

HistoryEntry(i) ==
    [role |-> IF i % 2 = 1 THEN "user" ELSE "assistant",
     content |-> << <<"turn ", ToString(i)>> >>]

History(len) == [i \in 1..len |-> HistoryEntry(i)]

Contexts == {"dashboard", "document", "general"}

Statistics == PyDict(<< <<"accepted", PyInt(80)>>, <<"denied", PyInt(20)>>,
                        <<"total", PyInt(100)>> >>)

City(i) == PyDict(<< <<"city", PyStr("city" \o ToString(i))>>, <<"total", PyInt(i)>> >>)

RecentClaim(i) ==
    PyDict(<< <<"claimNumber", PyStr("CLM-" \o ToString(i))>>,
              <<"patientName", PyStr("patient" \o ToString(i))>>,
              <<"status", PyStr("pending")>>, <<"amount", PyInt(10 * i)>> >>)

\* a well-formed claims summary with n cities and m recent claims
ClaimsSummary(n, m) ==
    PyDict(<< <<"statistics", Statistics>>,
              <<"cityData", PyList([i \in 1..n |-> City(i)])>>,
              <<"recentClaims", PyList([i \in 1..m |-> RecentClaim(i)])>> >>)

\* claims data of other shapes
OddClaims ==
    << PyNone,
       PyStr("not a dict"),
       PyList(<< Statistics >>),
       PyDict(<<>>),
       PyDict(<< <<"region", PyStr("ON")>> >>),
       PyDict(<< <<"statistics", PyNone>> >>),
       PyDict(<< <<"cityData", PyList(<<>>)>>, <<"recentClaims", PyList(<<>>)>> >>),
       PyDict(<< <<"statistics", Statistics>> >>),
       PyDict(<< <<"cityData", PyList(<< City(1), PyStr("Toronto") >>)>> >>),
       PyDict(<< <<"recentClaims", PyList(<< PyInt(7) >>)>> >>) >>

\* event-log entries: three structured ones, one with a timestamp that is no
\* number, and two that are no dict
LogEntries ==
    << PyDict(<< <<"timestamp", PyInt(3661000)>>, <<"toNodeId", PyStr("intake")>> >>),
       PyDict(<< <<"timestamp", PyInt(3725000)>>, <<"fromNodeId", PyStr("intake")>>,
                 <<"toNodeId", PyStr("review")>>, <<"reason", PyStr("complete")>>,
                 <<"action", PyStr("extract")>>,
                 <<"actionData", PyDict(<< <<"amount", PyInt(5)>> >>)>> >>),
       PyDict(<< <<"fromNodeId", PyStr("review")>>, <<"toNodeId", PyStr("done")>>,
                 <<"actionData", PyObject("{1, 2}")>> >>),
       PyDict(<< <<"timestamp", PyStr("noon")>>, <<"toNodeId", PyStr("late")>> >>),
       PyStr("junk"),
       PyNone >>

\* the event logs of up to MaxLog entries
EventLogs == UNION {[1..n -> 1..Len(LogEntries)] : n \in 0..MaxLog}

EventLog(choice) == PyList([i \in 1..Len(choice) |-> LogEntries[choice[i]]])

\* the values a node identifier can hold; 0 in Transition stands for an absent key
NodeIds == << PyNone, PyStr(""), PyInt(0), PyStr("intake"), PyInt(3), PyStr("review") >>

\* an entry with or without fromNodeId and toNodeId
Transition(f, t) ==
    PyDict(<< <<"timestamp", PyInt(3661000)>> >>
           \o (IF f > 0 THEN << <<"fromNodeId", NodeIds[f]>> >> ELSE <<>>)
           \o (IF t > 0 THEN << <<"toNodeId", NodeIds[t]>> >> ELSE <<>>))

\* event logs that are no list
OddLogs == << PyNone, PyStr("not a list"), PyDict(<< <<"timestamp", PyInt(1)>> >>) >>

Hello == <<"H", "i">>

SampleJson == <<"{", "\"", "a", "\"", ":", " ", "1", "}">>

Fenced(text) == Fence \o JsonTag \o <<"\n">> \o text \o <<"\n">> \o Fence

\* what the model API may answer
ChatUpstreams ==
    { Upstream("error", 0, "", "invalid", NoContent),
      Upstream("ok", 500, "Internal Server Error", "invalid", NoContent),
      Upstream("ok", 429, "Too Many Requests", "choices", TextContent(Hello)),
      Upstream("ok", HttpOk, "<html>", "invalid", NoContent),
      Upstream("ok", HttpOk, "{}", "no_choices", NoContent),
      Upstream("ok", HttpOk, "{...}", "choices", TextContent(Hello)),
      Upstream("ok", HttpOk, "{...}", "choices", NoContent) }

\* one answer that succeeds and one that fails
BasicUpstreams ==
    { Upstream("ok", 500, "Internal Server Error", "invalid", NoContent),
      Upstream("ok", HttpOk, "{...}", "choices", TextContent(SampleJson)) }

\* the model API's answers to an extraction, by the text of the first choice
PdfUpstreams ==
    ChatUpstreams
    \cup { Upstream("ok", HttpOk, "{...}", "choices", TextContent(t)) :
             t \in { SampleJson, Fenced(SampleJson), <<>>, <<"n", "u", "l", "l">>,
                     Fenced(<<"{", "\"", "a", "\"", "}">>) } }

\* the texts a response can hold: every text of a few characters, and a few longer
JsonAlphabet == {"[", "]", "{", "}", "1", "\"", " ", Backtick}

JsonTexts ==
    UNION {[1..n -> JsonAlphabet] : n \in 0..MaxJson}
    \cup { SampleJson, <<"n", "u", "l", "l">>, <<"\"", "j", "s", "o", "n", "\"">>,
           <<"j", "s", "o", "n">>, <<"[", "1", ",", "1", "]">>, <<"[", "1", ",", "]">> }

\* whitespace around a fenced response
Paddings == { <<>>, <<" ">>, <<"\n">>, <<FormFeed, "\n">> }

PageOptions ==
    { PageRaises, PageNone, PageText(<<" ", "a", " ">>), PageText(<<"b", "c">>) }

Pdfs == UNION {[pages : [1..n -> PageOptions]] : n \in 0..MaxPdfPages}

RenderPlans ==
    { RenderPlan("none", 0), RenderPlan("open", 0) }
    \cup { RenderPlan("page", k) : k \in 1..MaxRenderPages }

OcrNotCalled == OcrUpstream("error", 0, "invalid", <<>>, <<>>, <<>>)

OcrUpstreams ==
    { OcrNotCalled,
      OcrUpstream("ok", 500, "invalid", <<>>, <<>>, <<>>),
      OcrUpstream("ok", HttpOk, "invalid", <<>>, <<>>, <<>>),
      OcrUpstream("ok", HttpOk, "ok", <<>>, <<>>, <<>>),
      OcrUpstream("ok", HttpOk, "ok", << <<" ">> >>, <<>>, << <<"\n">> >>),
      OcrUpstream("ok", HttpOk, "ok", << <<"o", "c", "r", " ">> >>, <<>>, <<>>),
      OcrUpstream("ok", HttpOk, "ok", <<>>, << <<"p", "1">> >>, << <<"p", "2", "x">> >>) }

----------------------------------------------------------------------------
(* The state machine: the server serves one request at a time *)

NoRequest == [op |-> "none"]

NoResult == [none |-> TRUE]

NoFiles == [n \in {} |-> NoResult]

ClaimNumbers == { <<"A", " ", "1">>, <<"A", "_", "1">>, <<"B", "/", "2">> }

PatientNames == {"Ann"}

SavedLogs == { << "intake" >>, << "intake", "review" >> }

NeverSaved == [saved |-> FALSE]

LastSaved(log_data) == [saved |-> TRUE, data |-> log_data]

InitWith(envs) ==
    /\ env \in envs
    /\ pc = "idle"
    /\ request = NoRequest
    /\ posts = <<>>
    /\ messages = <<>>
    /\ result = NoResult
    /\ files = NoFiles
    /\ saved = [c \in ClaimNumbers |-> NeverSaved]
    /\ clock = 0

Init == InitWith(Environments)

\* a handler runs to its end: served holds its POSTs, messages and result
Serve(handler, inputs, served) ==
    /\ pc = "idle"
    /\ pc' = handler
    /\ request' = inputs
    /\ posts' = served.posts
    /\ messages' = served.messages
    /\ result' = served.result
    /\ UNCHANGED <<env, files, saved, clock>>

\* POST /api/chat
ServeChat(chat_history, context_type, claims_data, event_log, up) ==
    Serve("chat",
          [op |-> "chat", chat_history |-> chat_history, context_type |-> context_type,
           claims_data |-> claims_data, event_log |-> event_log, upstream |-> up],
          chat(ChatConfigured(env), UserMessage, chat_history, context_type,
               claims_data, event_log, up))

\* the messages of the last POST, if any
SentMessages(sent) == IF sent # <<>> THEN sent[Len(sent)].messages ELSE <<>>

Outcome(returned) ==
    [posts |-> returned.posts, messages |-> SentMessages(returned.posts), result |-> returned]

\* a call of process_pdf
ServePdf(pdf, max_chars, max_pages, plan, ocr, up) ==
    Serve("process_pdf",
          [op |-> "process_pdf", pdf |-> pdf, max_chars |-> max_chars,
           max_pages |-> max_pages, plan |-> plan, ocr |-> ocr, upstream |-> up],
          Outcome(process_pdf(env, pdf, "claim.pdf", max_chars, max_pages, plan, ocr, up)))

\* POST /api/event-log: both files are written before the response is built;
\* the two readings of the clock fall in the same second
SaveEventLog ==
    /\ pc = "idle"
    /\ \E claim_number \in ClaimNumbers, patient_name \in PatientNames,
          event_log \in SavedLogs, now \in clock..MaxClock :
          /\ pc' = "save_event_log"
          /\ request' = [op |-> "save_event_log", claim_number |-> claim_number,
                         patient_name |-> patient_name, event_log |-> event_log]
          /\ files' = SaveFiles(files, claim_number, patient_name, event_log, now)
          /\ saved' = [saved EXCEPT ![claim_number] =
                          LastSaved(LogData(claim_number, patient_name, event_log, now))]
          /\ clock' = now
          /\ result' = SaveResponse(claim_number, event_log, now)
          /\ UNCHANGED <<env, posts, messages>>

\* GET /api/event-log/{claim_number}
GetEventLog ==
    /\ pc = "idle"
    /\ \E claim_number \in ClaimNumbers :
          /\ pc' = "get_event_log"
          /\ request' = [op |-> "get_event_log", claim_number |-> claim_number]
          /\ result' = GetResponse(files, claim_number)
          /\ UNCHANGED <<env, posts, messages, files, saved, clock>>

\* _extract_pdf_text on a document, under a cap
ExtractText ==
    /\ pc = "idle"
    /\ \E pdf \in Pdfs, max_chars \in 0..MaxChars :
          Serve("_extract_pdf_text",
                [op |-> "_extract_pdf_text", pdf |-> pdf, max_chars |-> max_chars],
                [posts |-> <<>>, messages |-> <<>>,
                 result |-> _extract_pdf_text(pdf, max_chars)])

\* _safe_parse_json on a response and on the same response in a fence
ParseResponse ==
    /\ pc = "idle"
    /\ \E text \in JsonTexts, outer \in Paddings, inner \in {<<>>, <<"\n">>} :
          Serve("_safe_parse_json",
                [op |-> "_safe_parse_json", text |-> text,
                 fenced |-> outer \o Fence \o JsonTag \o inner \o text \o inner
                            \o Fence \o outer],
                [posts |-> <<>>, messages |-> <<>>,
                 result |-> [plain |-> _safe_parse_json(TextContent(text)),
                             fenced |-> _safe_parse_json(TextContent(
                                 outer \o Fence \o JsonTag \o inner \o text \o inner
                                 \o Fence \o outer))]])

\* the response is delivered and the request's state dropped
Return ==
    /\ pc # "idle"
    /\ pc' = "idle"
    /\ request' = NoRequest
    /\ posts' = <<>>
    /\ messages' = <<>>
    /\ result' = NoResult
    /\ UNCHANGED <<env, files, saved, clock>>

\* chat requests of every history length
ChatWithHistory ==
    /\ pc = "idle"
    /\ \E len \in 0..MaxHist, context_type \in Contexts, up \in ChatUpstreams :
          ServeChat(History(len), context_type, ClaimsSummary(1, 1), PyNone, up)

\* dashboard chats over claims summaries
ChatWithClaims ==
    /\ pc = "idle"
    /\ \E n \in 0..MaxCities, m \in 0..MaxRecent, up \in BasicUpstreams :
          ServeChat(<<>>, "dashboard", ClaimsSummary(n, m), PyNone, up)

\* dashboard chats over event logs
ChatWithLog ==
    /\ pc = "idle"
    /\ \E c \in {1, 8}, choice \in EventLogs, up \in BasicUpstreams :
          ServeChat(History(2), "dashboard", OddClaims[c], EventLog(choice), up)

\* dashboard chats over claims data and event logs of other shapes
ChatWithOddData ==
    /\ pc = "idle"
    /\ \E c \in 1..Len(OddClaims), l \in 1..Len(OddLogs), up \in BasicUpstreams :
          ServeChat(History(2), "dashboard", OddClaims[c], OddLogs[l], up)

\* dashboard chats over one transition of every shape
ChatWithTransition ==
    /\ pc = "idle"
    /\ \E f \in 0..Len(NodeIds), t \in 0..Len(NodeIds), up \in BasicUpstreams :
          ServeChat(<<>>, "dashboard", PyNone, PyList(<< Transition(f, t) >>), up)

\* the OCR answers that can occur: none is drawn when the service does not ask
OcrChoices == IF OcrAttempted(env) THEN OcrUpstreams ELSE {OcrNotCalled}

\* extractions over documents of every shape
ExtractDocument ==
    /\ pc = "idle"
    /\ \E pdf \in Pdfs, max_chars \in 0..MaxChars, max_pages \in 1..MaxRenderPages,
          plan \in RenderPlans, ocr \in OcrChoices, up \in BasicUpstreams :
          ServePdf(pdf, max_chars, max_pages, plan, ocr, up)

\* extractions over the model API's answers
ExtractResponse ==
    /\ pc = "idle"
    /\ \E pdf \in {p \in Pdfs : Len(p.pages) = 1}, ocr \in OcrChoices, up \in PdfUpstreams :
          ServePdf(pdf, MaxChars, MaxRenderPages, RenderPlan("none", 0), ocr, up)

\* a few requests of each kind, for the properties of any request
AnyChat ==
    /\ pc = "idle"
    /\ \E len \in {0, HistoryLimit + 1}, context_type \in Contexts,
          c \in {1, 8, 9}, choice \in {<<>>, <<1, 5>>}, up \in ChatUpstreams :
          ServeChat(History(len), context_type, OddClaims[c], EventLog(choice), up)

AnyExtract ==
    /\ pc = "idle"
    /\ \E pdf \in {p \in Pdfs : Len(p.pages) = 1}, ocr \in OcrChoices, up \in PdfUpstreams :
          ServePdf(pdf, MaxChars, MaxRenderPages, RenderPlan("none", 0), ocr, up)

Next == AnyChat \/ AnyExtract \/ Return

Spec == Init /\ [][Next]_vars

NextChat ==
    \/ ChatWithHistory
    \/ ChatWithClaims
    \/ ChatWithLog
    \/ ChatWithOddData
    \/ ChatWithTransition
    \/ Return

SpecChat == InitWith(ChatEnvironments) /\ [][NextChat]_vars

NextPdf == ExtractDocument \/ ExtractResponse \/ ExtractText \/ Return

SpecPdf == InitWith(PdfEnvironments) /\ [][NextPdf]_vars

\* one environment: the event-log endpoints and the parser read none of it
FullEnvironment == {e \in PdfEnvironments : e.include_text /\ e.use_mistral_ocr /\ e.mistral_key}

NextLog == SaveEventLog \/ GetEventLog \/ Return

SpecLog == InitWith(FullEnvironment) /\ [][NextLog]_vars

NextParse == ParseResponse \/ Return

SpecParse == InitWith(FullEnvironment) /\ [][NextParse]_vars

----------------------------------------------------------------------------
(* The properties *)

\* the POSTs of a request that went to one API
PostsTo(api) == {i \in DOMAIN posts : posts[i].api = api}

\* the model API's answer is a non-success status, or a success without choices
UpstreamRejects(up) ==
    up.net = "ok" /\ (up.status # HttpOk \/ up.json = "no_choices")

\* C1: with the credentials not configured, a chat call returns a failure result
\* and an extraction call fails, and neither issues a POST to the model API or
\* to the OCR API, whatever the input.
UnconfiguredFailsWithoutCall ==
    /\ (pc = "chat" /\ ~(env.openai_endpoint /\ env.openai_key)) =>
          /\ result.success = FALSE
          /\ "error" \in result.keys /\ result.error # <<>>
          /\ posts = <<>>
    /\ (pc = "process_pdf"
          /\ ~(env.openai_endpoint /\ env.openai_key /\ env.openai_deployment)) =>
          /\ result.raised
          /\ result.exc_type = "ValueError"
          /\ posts = <<>>

\* an unconfigured chat whose model API would have answered
UnconfiguredChatServed ==
    /\ pc = "chat"
    /\ ~(env.openai_endpoint /\ env.openai_key)
    /\ request.upstream.status = HttpOk /\ request.upstream.json = "choices"
    /\ result.error = NotConfiguredError
    /\ posts = <<>>

\* C2 as stated: every chat request and every extraction request performs at
\* most one outbound network call, under every configuration.
AtMostOneCall == pc \in {"chat", "process_pdf"} => Len(posts) <= 1

\* C2, amended: a chat request performs at most one outbound call; an
\* extraction request performs at most one call to the model API and, only when
\* the OCR fallback is enabled with its credentials, one call to the OCR API
\* before it: at most two calls in all.
AtMostOneCallPerApi ==
    /\ pc = "chat" => Len(posts) <= 1 /\ PostsTo("mistral_ocr") = {}
    /\ pc = "process_pdf" =>
          /\ Cardinality(PostsTo("azure_openai")) <= 1
          /\ Cardinality(PostsTo("mistral_ocr")) <= 1
          /\ PostsTo("mistral_ocr") # {} => OcrAttempted(env) /\ posts[1].api = "mistral_ocr"
          /\ Len(posts) <= 2

\* an extraction that called the OCR API and then the model API
ExtractionCalledTwice ==
    /\ pc = "process_pdf"
    /\ Len(posts) = 2
    /\ posts[1].api = "mistral_ocr" /\ posts[2].api = "azure_openai"

\* C3: for a chat history of length L the message list sent to the model is the
\* system message, then the last min(L, 20) history entries in their original
\* order, then the new user message; all entries when L <= 20, exactly the last
\* 20 when L > 20.
HistoryWindowSent ==
    (pc = "chat" /\ posts # <<>>) =>
        LET L == Len(request.chat_history)
            K == IF L > 20 THEN 20 ELSE L
            sent == posts[1].messages
        IN  /\ Len(sent) = K + 2
            /\ sent[1].role = "system"
            /\ \A i \in 1..K : sent[1 + i] = request.chat_history[L - K + i]
            /\ sent[K + 2] = [role |-> "user", content |-> UserMessage]

\* a chat with more than 20 history entries reached the model
LongHistorySent ==
    /\ pc = "chat"
    /\ posts # <<>>
    /\ Len(request.chat_history) > 20
    /\ Len(posts[1].messages) = 22

\* C4: when the model API answers with a non-success status, or with a success
\* status and no choices, the model call fails with an error that carries the
\* status code and the body in the non-success case; chat returns success=false
\* with that detail in its error text, process_pdf raises it, and no second
\* POST is issued.
UpstreamErrorSurfacedOnce ==
    /\ (pc = "chat" /\ posts # <<>> /\ UpstreamRejects(request.upstream)) =>
          /\ result.success = FALSE
          /\ request.upstream.status # HttpOk =>
                Contains(result.error, <<ToString(request.upstream.status), " - ",
                                         request.upstream.text>>)
          /\ request.upstream.status = HttpOk =>
                Contains(result.error, <<"No response content from Azure OpenAI">>)
          /\ Len(posts) = 1
    /\ (pc = "process_pdf" /\ PostsTo("azure_openai") # {}
          /\ UpstreamRejects(request.upstream)) =>
          /\ result.raised
          /\ result.exc_type = "RuntimeError"
          /\ request.upstream.status # HttpOk =>
                Contains(result.exc, <<ToString(request.upstream.status), " - ",
                                       request.upstream.text>>)
          /\ Cardinality(PostsTo("azure_openai")) = 1

\* a chat whose model call was answered with status 500
ChatRejectedUpstream ==
    /\ pc = "chat"
    /\ posts # <<>>
    /\ request.upstream.net = "ok" /\ request.upstream.status = 500
    /\ result.success = FALSE

\* every page of the document yields no text: extract_text raises or returns nothing
AllPagesFail(pdf) ==
    /\ pdf.pages # <<>>
    /\ \A i \in 1..Len(pdf.pages) : pdf.pages[i].kind \in {"raises", "none"}

\* process_pdf raised the extraction error and the model API was not called
ExtractionErrorBeforeModel ==
    /\ result.raised
    /\ result.exc_type = "ValueError"
    /\ result.exc = <<"Unable to extract readable text from PDF.">>
    /\ PostsTo("azure_openai") = {}

\* process_pdf went on to the model call, with the page images it rendered
ModelCalledWithImages ==
    /\ Cardinality(PostsTo("azure_openai")) = 1
    /\ Len(posts[Len(posts)].messages[2].content.images)
          = Len(_render_pdf_images(request.pdf, request.max_pages, request.plan).images)
    /\ result.raised => result.exc # <<"Unable to extract readable text from PDF.">>

\* the OCR fallback was asked and answered with text
OcrRecovered ==
    OcrAttempted(env) /\ _call_mistral_document_ai(request.ocr).ty = "str"

\* C5 as stated: for a PDF whose pages all fail text extraction, process_pdf
\* with text inclusion enabled fails with the extraction error before any model
\* call, and with text inclusion disabled goes on to the model call with the
\* rendered page images.
NoTextFailsBeforeModelCall ==
    (pc = "process_pdf" /\ AllPagesFail(request.pdf)) =>
        IF env.include_text THEN ExtractionErrorBeforeModel ELSE ModelCalledWithImages

\* C5, amended: for a PDF whose pages all fail text extraction, process_pdf with
\* text inclusion enabled fails with the extraction error before any model call
\* unless the OCR fallback was attempted and returned text, in which case it
\* goes on to the model call with the OCR text; with text inclusion disabled it
\* goes on to the model call with the rendered page images.
NoTextFailsUnlessOcrRecovers ==
    (pc = "process_pdf" /\ AllPagesFail(request.pdf)) =>
        /\ (env.include_text /\ ~OcrRecovered) => ExtractionErrorBeforeModel
        /\ (env.include_text /\ OcrRecovered) =>
              /\ ModelCalledWithImages
              /\ posts[2].messages[2].content.text.document_text
                    = _call_mistral_document_ai(request.ocr).chars
        /\ ~env.include_text => ModelCalledWithImages

\* a document without text, the OCR fallback asked in vain, the extraction error
NoTextAndOcrEmpty ==
    /\ pc = "process_pdf"
    /\ AllPagesFail(request.pdf)
    /\ env.include_text
    /\ Len(posts) = 1 /\ posts[1].api = "mistral_ocr"
    /\ ExtractionErrorBeforeModel

\* the model API answered with a first choice whose content does not parse as
\* JSON, fence and tag removed
AnsweredWithoutJson(up) ==
    /\ up.net = "ok" /\ up.status = HttpOk /\ up.json = "choices"
    /\ up.content.ty = "str" => json_loads(Cleaned(up.content.chars)).raised

\* C6: a model response that is not valid JSON yields an extraction result with
\* parsed_json = None, a non-empty parse_error and the raw response text kept in
\* raw_response; process_pdf does not raise because of it.
InvalidJsonKeptAsPartialResult ==
    (pc = "process_pdf" /\ PostsTo("azure_openai") # {}
       /\ AnsweredWithoutJson(request.upstream)) =>
        /\ ~result.raised
        /\ result.parsed_json = JNull
        /\ "parse_error" \in result.keys
        /\ result.parse_error # <<>>
        /\ result.raw_response = request.upstream.content

\* an extraction whose model answer was plain prose
ProseAnswerReturned ==
    /\ pc = "process_pdf"
    /\ request.upstream.content = TextContent(Hello)
    /\ request.upstream.status = HttpOk
    /\ ~result.raised
    /\ result.raw_response = TextContent(Hello)
    /\ "parse_error" \in result.keys

\* C7: for every valid JSON text J, the response made of J in a triple-backtick
\* fence with a leading json tag, with or without whitespace and newlines around
\* the fence and around J, parses without error to the value J parses to
\* unfenced.
FencedParsesAsPlain ==
    (pc = "_safe_parse_json" /\ ~json_loads(request.text).raised) =>
        /\ result.fenced.error = <<>>
        /\ result.fenced.parsed_json = json_loads(request.text).value
        /\ result.plain = result.fenced

\* a fenced object with whitespace around the fence and newlines inside, parsed
FencedObjectParsed ==
    /\ pc = "_safe_parse_json"
    /\ request.text = SampleJson
    /\ Head(request.fenced) = FormFeed
    /\ Contains(request.fenced, JsonTag \o <<"\n">>)
    /\ result.fenced.error = <<>>
    /\ result.fenced.parsed_json.ty = "dict"

\* C8: retrieving the event log of a claim number that has been saved returns
\* the data of the most recent save made for that claim number; retrieving for
\* a claim number never saved returns not-found with success=false.
LatestSaveRetrieved ==
    pc = "get_event_log" =>
        IF saved[request.claim_number].saved
        THEN result = Found(saved[request.claim_number].data)
        ELSE result = NotFound

\* the lines of the system message sent to the model
SentPrompt == posts[1].messages[1].content

\* C9: in the dashboard system message the claims-summary header appears only
\* with at least one summary line under it, and only when the claims data is a
\* dict; the activity-log header appears exactly when a non-empty event log
\* list is given.
NoHeaderWithoutContent ==
    (pc = "chat" /\ request.context_type = "dashboard" /\ posts # <<>>) =>
        /\ \A i \in 1..Len(SentPrompt) :
              SentPrompt[i] = ClaimsHeader =>
                /\ IsDict(request.claims_data)
                /\ i < Len(SentPrompt)
                /\ SentPrompt[i + 1] # <<>>
        /\ (\E i \in 1..Len(SentPrompt) : SentPrompt[i] = ActivityHeader)
              <=> (IsList(request.event_log) /\ request.event_log.items # <<>>)

\* the dict entries of an event log, in order
StructuredEntries(event_log) == SelectSeq(event_log.items, IsDict)

\* C10: an event-log entry that is not an object is left out of the rendered
\* timeline and raises no error; the structured entries around it are rendered
\* in their original order (entries whose own rendering raises set aside).
UnstructuredEntriesSkipped ==
    (pc = "chat" /\ request.context_type = "dashboard" /\ ChatConfigured(env)
       /\ IsList(request.event_log) /\ request.event_log.items # <<>>
       /\ \A i \in 1..Len(StructuredEntries(request.event_log)) :
             ~BadTimestamp(StructuredEntries(request.event_log)[i])) =>
        /\ posts # <<>>
        /\ Contains(SentPrompt,
                    << <<"Chronological Activity Timeline (latest last):">> >>
                    \o Flatten([i \in 1..Len(StructuredEntries(request.event_log)) |->
                                  Flatten(EventParts(StructuredEntries(request.event_log)[i]))])
                    \o << <<>>, <<"Use the activity log to answer questions about the claims process agent stages, actions taken, extracted information, branching decisions, and outcomes.">> >>)

\* a log with an entry that is no object between two structured entries, sent
JunkBetweenEntriesSent ==
    /\ pc = "chat"
    /\ posts # <<>>
    /\ IsList(request.event_log)
    /\ Len(request.event_log.items) = 3
    /\ IsDict(request.event_log.items[1])
    /\ ~IsDict(request.event_log.items[2])
    /\ IsDict(request.event_log.items[3])
    /\ Contains(SentPrompt, << <<"Chronological Activity Timeline (latest last):">> >>)

\* a line of the timeline that opens an entry
IsEntryLine(line) == line # <<>> /\ line[1] = "  ["

\* the time an entry's line shows
EntryTime(event) ==
    IF Truthy(DictGet(event, "timestamp", PyInt(0)))
    THEN TimeStr(DictGet(event, "timestamp", PyInt(0)).n)
    ELSE <<"N/A">>

StartedLine(event) ==
    <<"  [">> \o EntryTime(event)
    \o <<"] ", "Started: ", Render(DictGet(event, "toNodeId", PyNone))>>

ArrowLine(event) ==
    <<"  [">> \o EntryTime(event)
    \o <<"] ", Render(DictGet(event, "fromNodeId", PyNone)), " -> ",
         Render(DictGet(event, "toNodeId", PyNone))>>

\* C11 as stated: the line of an entry without the key fromNodeId reads
\* Started: {toNodeId}, the line of every other entry {fromNodeId} -> {toNodeId}.
StartedOnlyWhenFromMissing ==
    (pc = "chat" /\ request.context_type = "dashboard" /\ posts # <<>>
       /\ IsList(request.event_log)) =>
        SelectSeq(SentPrompt, IsEntryLine)
          = [i \in 1..Len(StructuredEntries(request.event_log)) |->
               IF DictHas(StructuredEntries(request.event_log)[i], "fromNodeId")
               THEN ArrowLine(StructuredEntries(request.event_log)[i])
               ELSE StartedLine(StructuredEntries(request.event_log)[i])]

\* C11, amended: the line of an entry whose fromNodeId is absent or falsy (None,
\* the empty string, 0) reads Started: {toNodeId}; the line of every other
\* entry reads {fromNodeId} -> {toNodeId}.
StartedWhenFromFalsy ==
    (pc = "chat" /\ request.context_type = "dashboard" /\ posts # <<>>
       /\ IsList(request.event_log)) =>
        SelectSeq(SentPrompt, IsEntryLine)
          = [i \in 1..Len(StructuredEntries(request.event_log)) |->
               IF Truthy(DictGet(StructuredEntries(request.event_log)[i],
                                 "fromNodeId", PyNone))
               THEN ArrowLine(StructuredEntries(request.event_log)[i])
               ELSE StartedLine(StructuredEntries(request.event_log)[i])]

\* an entry whose fromNodeId is the empty string, rendered as a start
EmptyFromRenderedAsStart ==
    /\ pc = "chat"
    /\ posts # <<>>
    /\ request.event_log = PyList(<< Transition(2, 6) >>)
    /\ Contains(SentPrompt, << <<"  [", "0", "1", ":", "0", "1", ":", "0", "1", "] ",
                                 "Started: ", "review">> >>)

\* the list under a key of the claims data
ListUnder(claims_data, key) == DictGet(claims_data, key, PyList(<<>>)).items

\* claims data whose cityData and recentClaims are lists of objects
WellFormedSummary(claims_data) ==
    /\ IsDict(claims_data)
    /\ IsList(DictGet(claims_data, "cityData", PyList(<<>>)))
    /\ IsList(DictGet(claims_data, "recentClaims", PyList(<<>>)))
    /\ \A i \in 1..Len(ListUnder(claims_data, "cityData")) :
          IsDict(ListUnder(claims_data, "cityData")[i])
    /\ \A i \in 1..Len(ListUnder(claims_data, "recentClaims")) :
          IsDict(ListUnder(claims_data, "recentClaims")[i])

IsCityLine(line) == Len(line) >= 3 /\ line[1] = "  - " /\ line[3] = ": Total="

IsRecentLine(line) == Len(line) >= 5 /\ line[1] = "  - " /\ line[5] = " ("

\* C12: for a claims summary with N cities and M recent claims the rendered
\* summary holds the lines of the first min(N, 10) cities and of the first
\* min(M, 5) recent claims, each list in its original order, and no line of an
\* entry beyond those prefixes.
SummaryShowsPrefixes ==
    (pc = "chat" /\ request.context_type = "dashboard" /\ posts # <<>>
       /\ WellFormedSummary(request.claims_data)) =>
        /\ SelectSeq(SentPrompt, IsCityLine)
              = [i \in 1..(IF Len(ListUnder(request.claims_data, "cityData")) > 10
                           THEN 10 ELSE Len(ListUnder(request.claims_data, "cityData"))) |->
                   CityLine(ListUnder(request.claims_data, "cityData")[i])]
        /\ SelectSeq(SentPrompt, IsRecentLine)
              = [i \in 1..(IF Len(ListUnder(request.claims_data, "recentClaims")) > 5
                           THEN 5 ELSE Len(ListUnder(request.claims_data, "recentClaims"))) |->
                   RecentLine(ListUnder(request.claims_data, "recentClaims")[i])]

\* a summary of more than 10 cities and more than 5 recent claims, sent
LongSummarySent ==
    /\ pc = "chat"
    /\ posts # <<>>
    /\ WellFormedSummary(request.claims_data)
    /\ Len(ListUnder(request.claims_data, "cityData")) > 10
    /\ Len(ListUnder(request.claims_data, "recentClaims")) > 5
    /\ Len(SelectSeq(SentPrompt, IsCityLine)) = 10
    /\ Len(SelectSeq(SentPrompt, IsRecentLine)) = 5

\* the OCR call failed: no connection, a non-success status, or no JSON body
OcrFailed(ocr) == ocr.net = "error" \/ ocr.status # HttpOk \/ ocr.json = "invalid"

\* the OCR call answered with a fragment that is not blank
OcrHasText(ocr) ==
    /\ ~OcrFailed(ocr)
    /\ \E i \in 1..Len(ocr.output_text \o ocr.output_pages \o ocr.pages) :
          StripWs((ocr.output_text \o ocr.output_pages \o ocr.pages)[i]) # <<>>

\* the document text in the prompt sent to the model API
SentDocumentText == posts[Len(posts)].messages[2].content.text.document_text

\* C13: when the OCR fallback is attempted, an OCR failure or an empty OCR
\* result does not by itself fail the extraction: the pypdf text is used,
\* text_source stays pypdf and a warning is recorded; text_source is
\* mistral_document_ai exactly when OCR returned non-empty text, and that text
\* is the one used.
OcrFallsBackToPypdf ==
    (pc = "process_pdf" /\ OcrAttempted(env)) =>
        /\ posts # <<>> /\ posts[1].api = "mistral_ocr"
        /\ ~OcrHasText(request.ocr) =>
              /\ (result.raised /\ PostsTo("azure_openai") = {}) =>
                    /\ result.exc = <<"Unable to extract readable text from PDF.">>
                    /\ StripWs(_extract_pdf_text(request.pdf, request.max_chars).text) = <<>>
              /\ PostsTo("azure_openai") # {} =>
                    SentDocumentText = _extract_pdf_text(request.pdf, request.max_chars).text
              /\ ~result.raised =>
                    /\ result.metadata.text_source = "pypdf"
                    /\ result.metadata.ocr_warning
        /\ OcrHasText(request.ocr) =>
              /\ PostsTo("azure_openai") # {}
              /\ SentDocumentText = _call_mistral_document_ai(request.ocr).chars
              /\ SentDocumentText # <<>>
              /\ ~result.raised =>
                    /\ result.metadata.text_source = "mistral_document_ai"
                    /\ ~result.metadata.ocr_warning

\* the OCR call answered 500 and the extraction returned with the pypdf text
OcrFailedExtractionReturned ==
    /\ pc = "process_pdf"
    /\ OcrAttempted(env)
    /\ request.ocr.net = "ok" /\ request.ocr.status = 500
    /\ ~result.raised
    /\ result.metadata.text_source = "pypdf"
    /\ result.metadata.ocr_warning
    /\ SentDocumentText # <<>>

\* a page whose extract_text() returns text that is not blank
YieldsText(page) == page.kind = "str" /\ StripWs(page.chars) # <<>>

\* the stripped texts of the pages that yield text, joined by blank lines
BlankLineJoin(pdf) ==
    JoinChars([i \in 1..Len(SelectSeq(pdf.pages, YieldsText)) |->
                 StripWs(SelectSeq(pdf.pages, YieldsText)[i].chars)],
              <<"\n", "\n">>)

\* C14: for any PDF and any cap, _extract_pdf_text returns the first max_chars
\* characters of the blank-line join of the non-empty page texts, a page that
\* yields no text adding nothing and not aborting; character_count is the
\* length of the returned text and never exceeds the cap; truncated is true
\* exactly when the joined text was longer than the cap.
ExtractedTextWithinCap ==
    pc = "_extract_pdf_text" =>
        LET joined == BlankLineJoin(request.pdf)
            cap == request.max_chars
        IN  /\ result.text = SubSeq(joined, 1, IF Len(joined) > cap THEN cap ELSE Len(joined))
            /\ result.metadata.character_count = Len(result.text)
            /\ result.metadata.character_count <= cap
            /\ result.metadata.truncated <=> Len(joined) > cap
            /\ result.metadata.page_count = Len(request.pdf.pages)
            /\ result.metadata.max_chars = cap

\* a page that raises, a page with text, and a cap that cuts the text
FailedPageSkippedTextCut ==
    /\ pc = "_extract_pdf_text"
    /\ Len(request.pdf.pages) = 2
    /\ request.pdf.pages[1].kind = "raises"
    /\ request.pdf.pages[2].kind = "str"
    /\ result.metadata.truncated
    /\ result.text = <<"b">>

\* C15: chat is total and its result well-formed: for any inputs, claims data
\* whose city or recent-claim entries are no objects and event entries with
\* non-numeric timestamps included, it returns a result in which success=true
\* comes with a response and no error, and success=false with a non-empty
\* error and no response.
ChatTotalAndWellFormed ==
    pc = "chat" =>
        /\ "success" \in DOMAIN result
        /\ result.success \in BOOLEAN
        /\ result.success =>
              /\ result.keys = {"success", "response"}
              /\ result.error = <<>>
        /\ ~result.success =>
              /\ result.keys = {"success", "error"}
              /\ result.error # <<>>
              /\ result.response = NoContent

\* a city entry that is no object: chat returned a failure naming the error
BadCityEntryReported ==
    /\ pc = "chat"
    /\ request.claims_data = OddClaims[9]
    /\ result.success = FALSE
    /\ Contains(result.error, <<"Error processing chat request: ">>)
    /\ Contains(result.error, <<"' object has no attribute 'get'">>)
    /\ posts = <<>>

\* C16: saving an event log for a claim number never changes what retrieval
\* returns for any other claim number, neither the data nor whether it is found.
SavesIsolated ==
    [][(pc = "idle" /\ pc' = "save_event_log") =>
          \A b \in ClaimNumbers \ {request'.claim_number} :
              GetResponse(files', b) = GetResponse(files, b)]_vars

\* the text part of the user prompt sent to the model API
SentUserText == posts[Len(posts)].messages[2].content.text

\* the page images attached to the prompt sent to the model API
SentImages == posts[Len(posts)].messages[2].content.images

\* C17: in every extraction with text inclusion enabled, the document text in
\* the user prompt is the text the metadata describes: its length equals
\* character_count and does not exceed max_chars, whichever source supplied it.
PromptTextMatchesMetadata ==
    (pc = "process_pdf" /\ env.include_text /\ PostsTo("azure_openai") # {}) =>
        /\ Len(SentUserText.document_text) = SentUserText.character_count
        /\ Len(SentUserText.document_text) <= request.max_chars
        /\ ~result.raised =>
              /\ result.metadata.character_count = Len(SentUserText.document_text)
              /\ result.metadata.max_chars = request.max_chars

\* C18: in every extraction result, rendered_page_count equals the number of
\* page images attached to the prompt sent to the model, also when rendering
\* fails partway through the pages, and never exceeds min(page count,
\* configured maximum pages).
RenderedCountMatchesImages ==
    (pc = "process_pdf" /\ ~result.raised) =>
        /\ result.metadata.rendered_page_count = Len(SentImages)
        /\ result.metadata.rendered_page_count <= Len(request.pdf.pages)
        /\ result.metadata.rendered_page_count <= request.max_pages

\* C19: for every model response text, an extraction result carries
\* parse_error if and only if its parsed_json is None.
ParseErrorIffNoValue ==
    (pc = "process_pdf" /\ ~result.raised) =>
        ("parse_error" \in result.keys <=> result.parsed_json = JNull)

====
